---- MODULE Spec2Model ----
(***************************************************************************)
(* Transaction compaction in src/pg-adapter.ts (PgQueryable, PgTransaction, *)
(* PrismaPg).  One pooled connection object carries the session state       *)
(* (previousQueries, readyToExecuteTransaction); the model records every    *)
(* call the physical connection receives and every result handed back to    *)
(* the caller.  A Query is modelled by its sql text, the bind values are    *)
(* passed through unchanged and play no part in any decision.               *)
(***************************************************************************)
EXTENDS Integers, Sequences, FiniteSets, TLC

\* ------------------------------------------------------------------ bounds
MaxQueries == 4      \* statements submitted on one session
MaxFailures == 1     \* failing connection calls on one session
MaxClose == 2        \* commit()/rollback() calls on one session
MaxSessions == 2     \* sessions handed out on the pooled connection
MaxLong == 5         \* statements of a session whose calls all answer

\* ------------------------------------------------------------- sql texts
\* A text is the statement's tokens followed by its trailing comments; a
\* comment carries one context payload, a set of <<key, value>> pairs.
Sql(tokens) == [sql |-> tokens, comments |-> <<>>]
Marker(context) == [sql |-> <<>>, comments |-> <<context>>]

BeginSql == Sql(<<"BEGIN">>)
CommitSql == Sql(<<"COMMIT">>)
SelectSql == Sql(<<"SELECT", "1">>)
UpdateSql == Sql(<<"UPDATE", "t", "SET", "x=1">>)
CtxSql == Marker({<<"SQL", <<"...">>>>})
CtxTag == Marker({<<"tag", <<"a">>>>})

Statements == {BeginSql, CommitSql, SelectSql, UpdateSql, CtxSql, CtxTag}

\* Outcome of one call of the physical connection: it answers, it fails with
\* a database-reported error (code, severity, message), or it fails otherwise.
Outcomes == {"rows", "pg", "other"}

\* --------------------------------------------------- pg-utils (classifier)
LeadingKeyword(sql) == IF sql.sql = <<>> THEN "" ELSE Head(sql.sql)

isContextComment(sql) == sql.sql = <<>> /\ Len(sql.comments) = 1

isWriteQuery(sql) == LeadingKeyword(sql) \in {"INSERT", "UPDATE", "DELETE"}

isBeginQuery(sql) == LeadingKeyword(sql) = "BEGIN"

isCommitQuery(sql) == LeadingKeyword(sql) = "COMMIT"

\* ------------------------------------------------------ pg-utils (codec)
contextToSqlComment(context) == <<context>>

sqlCommentToContext(sql) == sql.comments[1]

EMPTY_RESULT == [how |-> "return", what |-> "EMPTY_RESULT", call |-> 0]

\* ------------------------------------------------------------------ state
VARIABLES
    previousQueries,            \* conn.previousQueries: the session's log
    readyToExecuteTransaction,  \* conn.readyToExecuteTransaction
    calls,      \* calls client.query received in this session, with outcome
    results,    \* what performIO handed back for each submitted statement
    released,   \* client.release() invocations in this session
    session     \* number of the session that holds the connection

vars == <<previousQueries, readyToExecuteTransaction, calls, results, released, session>>

\* ----------------------------------------------------- physical connection
\* The running computation threads a world: the connection object's fields, the
\* calls made so far and the outcomes the connection will give to the next
\* calls (a call beyond the listed outcomes answers with rows).
World(pq, ready, cs, oracle) ==
    [pq |-> pq, ready |-> ready, calls |-> cs, oracle |-> oracle]

NextOutcome(w) == IF w.oracle = <<>> THEN "rows" ELSE Head(w.oracle)

RestOracle(w) == IF w.oracle = <<>> THEN <<>> ELSE Tail(w.oracle)

\* this.client.query({ text, ... }): returns the rows or throws the failure
ClientQuery(w, text) ==
    LET out == NextOutcome(w)
        n == Len(w.calls) + 1
    IN  [world |-> [w EXCEPT !.calls = Append(@, [text |-> text, outcome |-> out]),
                             !.oracle = RestOracle(w)],
         res |-> IF out = "rows"
                 THEN [how |-> "return", what |-> "rows", call |-> n]
                 ELSE [how |-> "throw", what |-> out, call |-> n]]

\* ------------------------------------------------ compactPerformIOResult
\* previousQueries.find((q) => isContextComment(q.sql)): index of the first hit
FindContextComment(pq) ==
    IF \E i \in 1..Len(pq) : isContextComment(pq[i])
    THEN CHOOSE i \in 1..Len(pq) :
            /\ isContextComment(pq[i])
            /\ \A j \in 1..(i - 1) : ~isContextComment(pq[j])
    ELSE 0

\* { SQL: sql, ...context }: a key of the spread object replaces the same key
\* written before it
SpreadContext(sql, context) ==
    {p \in {<<"SQL", sql.sql>>} : \A q \in context : q[1] # p[1]} \cup context

\* `${sql} ${contextToSqlComment({ SQL: sql, ...sqlCommentToContext(prev) })}`
RewrittenText(sql, prev) ==
    [sql |-> sql.sql,
     comments |-> sql.comments \o
                  contextToSqlComment(SpreadContext(sql, sqlCommentToContext(prev)))]

\* the text that goes to the connection for sql, given the log before the push
QueryText(sql, pq) ==
    LET i == FindContextComment(pq)
    IN  IF i # 0 /\ isWriteQuery(sql) THEN RewrittenText(sql, pq[i]) ELSE sql

\* slip: the push is not guarded by catchingUp
PushQuery_AlsoCatchingUp(pq, sql, catchingUp) == Append(pq, sql)

\* if (!catchingUp) previousQueries.push(query)
PushQuery(pq, sql, catchingUp) == IF catchingUp THEN pq ELSE Append(pq, sql)

\* slip: the length is compared as it was before the push
SkipBegin_LengthBeforePush(sql, pq) == isBeginQuery(sql) /\ Len(pq) = 0

\* Skip accumulated BEGIN
SkipBegin(sql, pq) == isBeginQuery(sql) /\ Len(pq) = 1

\* Skip accumulated COMMIT
SkipCommit(sql, pq, hasContext) == isCommitQuery(sql) /\ hasContext /\ Len(pq) = 4

\* slip: the skips are not guarded by readyToExecuteTransaction
SkipAccumulated_IgnoresReady(ready, sql, pq, hasContext) ==
    SkipBegin(sql, pq) \/ SkipCommit(sql, pq, hasContext)

\* if (!readyToExecuteTransaction) { skip BEGIN; skip COMMIT; ... }
SkipAccumulated(ready, sql, pq, hasContext) ==
    ~ready /\ (SkipBegin(sql, pq) \/ SkipCommit(sql, pq, hasContext))

\* slip: the two-entry escape is missing
CatchUpNeeded_ThreeOnly(sql, pq) == Len(pq) = 3 /\ ~isWriteQuery(sql)

\* slip: >= in place of === in the three-entry escape
CatchUpNeeded_ThreeOrMore(sql, pq) ==
    \/ Len(pq) = 2 /\ ~isContextComment(sql)
    \/ Len(pq) >= 3 /\ ~isWriteQuery(sql)

\* Catch up and continue the entire transaction
CatchUpNeeded(sql, pq) ==
    \/ Len(pq) = 2 /\ ~isContextComment(sql)
    \/ Len(pq) = 3 /\ ~isWriteQuery(sql)

\* slip: slice(0, length), the statement being submitted is replayed too
CatchUpQueries_WithCurrent(pq) == pq

\* slip: slice(1, length - 1), the first entry is left out of the replay
CatchUpQueries_DropFirst(pq) == SubSeq(pq, 2, Len(pq) - 1)

\* previousQueries.slice(0, previousQueries.length - 1)
CatchUpQueries(pq) == SubSeq(pq, 1, Len(pq) - 1)

\* slip: the context marker is not held back
SkipContext_Never(sql) == FALSE

\* Skip accumulated context
SkipContext(sql) == isContextComment(sql)

\* the string fields a failure of client.query carries: the database reports
\* code, severity and message, any other failure is an Error with a message
ErrorFields(what) ==
    IF what = "pg" THEN {"code", "severity", "message"} ELSE {"message"}

\* slip: only the message is tested
IsPostgresError_MessageOnly(what) == "message" \in ErrorFields(what)

\* e && typeof e.code === 'string' && typeof e.severity === 'string' &&
\* typeof e.message === 'string'
IsPostgresError(what) == {"code", "severity", "message"} \subseteq ErrorFields(what)

NoResult == [how |-> "return", what |-> "none", call |-> 0]

RECURSIVE performIO(_, _, _)
RECURSIVE compactPerformIOResult(_, _, _)
RECURSIVE CatchUp(_, _)

\* for (const prevQuery of ...) { await this.performIO(prevQuery, true) }:
\* the value performIO returns is dropped, what it throws ends the loop
CatchUp(w, queries) ==
    IF queries = <<>>
    THEN [world |-> w, res |-> NoResult]
    ELSE LET r == performIO(w, Head(queries), TRUE)
         IN  IF r.res.how = "throw" THEN r ELSE CatchUp(r.world, Tail(queries))

compactPerformIOResult(w, sql, catchingUp) ==
    LET ready == w.ready
        hasContext == FindContextComment(w.pq) # 0
        text == QueryText(sql, w.pq)
        pq == PushQuery(w.pq, sql, catchingUp)
        w1 == [w EXCEPT !.pq = pq]
    IN  IF SkipAccumulated(ready, sql, pq, hasContext)
        THEN [world |-> w1, res |-> EMPTY_RESULT]
        ELSE LET c == IF ~ready /\ CatchUpNeeded(sql, pq)
                      THEN CatchUp([w1 EXCEPT !.ready = TRUE], CatchUpQueries(pq))
                      ELSE [world |-> w1, res |-> NoResult]
             IN  IF c.res.how = "throw" THEN c
                 ELSE IF SkipContext(sql)
                 THEN [world |-> c.world, res |-> EMPTY_RESULT]
                 ELSE ClientQuery(c.world, text)

performIO(w, sql, catchingUp) ==
    LET r == compactPerformIOResult(w, sql, catchingUp)
    IN  [world |-> r.world,
         res |-> IF r.res.how = "return"
                 THEN [how |-> "ok", what |-> r.res.what, call |-> r.res.call]
                 ELSE IF IsPostgresError(r.res.what)
                 THEN [how |-> "err", what |-> "Postgres", call |-> r.res.call]
                 ELSE [how |-> "throw", what |-> r.res.what, call |-> r.res.call]]

\* ---------------------------------------------------------------- actions
Failures(cs) == Cardinality({i \in 1..Len(cs) : cs[i].outcome # "rows"})

Here(oracle) ==
    World(previousQueries, readyToExecuteTransaction, calls, oracle)

\* queryRaw / executeRaw on the session: one performIO of the statement
Submit(sql, oracle) ==
    LET r == performIO(Here(oracle), sql, FALSE)
    IN  /\ Failures(r.world.calls) <= MaxFailures
        /\ previousQueries' = r.world.pq
        /\ readyToExecuteTransaction' = r.world.ready
        /\ calls' = r.world.calls
        /\ results' = Append(results, r.res)
        /\ UNCHANGED <<released, session>>

\* the connection calls the statement makes when every call answers
CallsOf(sql) == Len(performIO(Here(<<>>), sql, FALSE).world.calls) - Len(calls)

SubmitStatement ==
    /\ Len(previousQueries) < MaxQueries
    /\ \E sql \in Statements :
          \E oracle \in [1..CallsOf(sql) -> Outcomes] : Submit(sql, oracle)

\* slip: commit() sends COMMIT before it releases the connection
Commit_SendsCommit ==
    /\ released < MaxClose
    /\ released' = released + 1
    /\ calls' = Append(calls, [text |-> CommitSql, outcome |-> "rows"])
    /\ UNCHANGED <<previousQueries, readyToExecuteTransaction, results, session>>

Commit ==
    /\ released < MaxClose
    /\ released' = released + 1
    /\ UNCHANGED <<previousQueries, readyToExecuteTransaction, calls, results, session>>

Rollback ==
    /\ released < MaxClose
    /\ released' = released + 1
    /\ UNCHANGED <<previousQueries, readyToExecuteTransaction, calls, results, session>>

\* slip: the fields of the connection object are not set anew
TransactionContext_KeepsFields ==
    /\ released >= 1
    /\ session < MaxSessions
    /\ calls' = <<>>
    /\ results' = <<>>
    /\ released' = 0
    /\ session' = session + 1
    /\ UNCHANGED <<previousQueries, readyToExecuteTransaction>>

\* the pool hands the released connection object to the next session
TransactionContext ==
    /\ released >= 1
    /\ session < MaxSessions
    /\ previousQueries' = <<>>
    /\ readyToExecuteTransaction' = FALSE
    /\ calls' = <<>>
    /\ results' = <<>>
    /\ released' = 0
    /\ session' = session + 1

Init ==
    /\ previousQueries = <<>>
    /\ readyToExecuteTransaction = FALSE
    /\ calls = <<>>
    /\ results = <<>>
    /\ released = 0
    /\ session = 1

Next == SubmitStatement \/ Commit \/ Rollback \/ TransactionContext

Spec == Init /\ [][Next]_vars

\* one session, longer, on a connection that answers every call
SubmitAnswered ==
    /\ Len(previousQueries) < MaxLong
    /\ \E sql \in Statements : Submit(sql, <<>>)

NextAnswered == SubmitAnswered

SpecAnswered == Init /\ [][NextAnswered]_vars

\* ------------------------------------------------------- claim vocabulary
CallTexts == [i \in 1..Len(calls) |-> calls[i].text]

\* a forwarded text without the comments the rewriting appended
Original(text) == [sql |-> text.sql, comments |-> <<>>]

IsEmptyAnswer(r) == r.how = "ok" /\ r.what = "EMPTY_RESULT"

CountOf(seq, P(_)) == Cardinality({i \in 1..Len(seq) : P(seq[i])})

CanonicalShape ==
    /\ Len(previousQueries) = 4
    /\ isBeginQuery(previousQueries[1])
    /\ isContextComment(previousQueries[2])
    /\ isWriteQuery(previousQueries[3])
    /\ isCommitQuery(previousQueries[4])

\* C1: on a session whose four statements are BEGIN, context marker, one
\* write, COMMIT the connection has received exactly one call, the write with
\* its context comment appended; BEGIN, the marker and COMMIT were each
\* answered with the empty result and readyToExecuteTransaction is false.
C1_CanonicalSingleCall ==
    CanonicalShape =>
        /\ Len(calls) = 1
        /\ Original(calls[1].text) = previousQueries[3]
        /\ Len(calls[1].text.comments) = 1
        /\ \A i \in {1, 2, 4} : IsEmptyAnswer(results[i])
        /\ results[3].call = 1
        /\ ~readyToExecuteTransaction

C1_Witness ==
    /\ previousQueries = <<BeginSql, CtxTag, UpdateSql, CommitSql>>
    /\ Len(results) = 4
    /\ Len(calls) = 1

\* C2: when the first statement is BEGIN and the second is no context marker,
\* readyToExecuteTransaction is false after the first submission and true
\* after the second, the first call the connection receives is the BEGIN and
\* the second statement is the call after it (it is not sent at all when the
\* replayed BEGIN throws).  BEGIN, SELECT 1, COMMIT gives the calls BEGIN,
\* SELECT 1, COMMIT in that order, or BEGIN, COMMIT when the replayed BEGIN
\* threw and SELECT 1 was therefore not sent.
C2_BeginBeforeSecond ==
    /\ (Len(previousQueries) = 1 /\ isBeginQuery(previousQueries[1]))
          => (~readyToExecuteTransaction /\ calls = <<>>)
    /\ (/\ Len(previousQueries) >= 2
        /\ isBeginQuery(previousQueries[1])
        /\ ~isContextComment(previousQueries[2]))
          => /\ readyToExecuteTransaction
             /\ Len(calls) >= 1
             /\ calls[1].text = previousQueries[1]
             /\ (calls[1].outcome # "other"
                   => (Len(calls) >= 2 /\ calls[2].text = previousQueries[2]))
             /\ (calls[1].outcome = "other"
                   => (results[2].how = "throw" /\ results[2].call = 1))
    /\ previousQueries = <<BeginSql, SelectSql, CommitSql>>
          => CallTexts = IF calls[1].outcome = "other"
                         THEN <<BeginSql, CommitSql>>
                         ELSE <<BeginSql, SelectSql, CommitSql>>

C2_Witness ==
    /\ previousQueries = <<BeginSql, SelectSql, CommitSql>>
    /\ CallTexts = <<BeginSql, SelectSql, CommitSql>>
    /\ readyToExecuteTransaction

\* the step submits one statement on the running session
Submitted ==
    /\ session' = session
    /\ Len(previousQueries') = Len(previousQueries) + 1

LastOf(seq) == seq[Len(seq)]

Markers(pq) == {i \in 1..Len(pq) : isContextComment(pq[i])}

\* C3: a write submitted when the log holds a context marker reaches the
\* connection as its own text followed by one comment; the comment's payload
\* has every key of the decoded marker, and its SQL key holds the write's own
\* text, also when the marker's payload has an SQL key itself.
C3_ReservedKeyIsOwnText ==
    [][(/\ Submitted
        /\ isWriteQuery(LastOf(previousQueries'))
        /\ Markers(previousQueries) # {}
        /\ Len(calls') > Len(calls))
       => LET s == LastOf(previousQueries')
              text == LastOf(calls').text
          IN  /\ Original(text) = s
              /\ Len(text.comments) = 1
              /\ <<"SQL", s.sql>> \in text.comments[1]
              /\ \E m \in Markers(previousQueries) :
                    \A p \in sqlCommentToContext(previousQueries[m]) :
                       \E q \in text.comments[1] : q[1] = p[1]]_vars

\* the step is a submission that fires the catch-up
Materializes ==
    Submitted /\ ~readyToExecuteTransaction /\ readyToExecuteTransaction'

\* the calls the connection received during the step
NewCalls == SubSeq(calls', Len(calls) + 1, Len(calls'))

\* C4: when a call made during the catch-up of a submission fails, that
\* submission hands this failure to its caller: the result of the submission
\* is an error and it is the error of the failing call.
C4_ReplayFailureSurfaced ==
    [][Materializes
       => \A k \in (Len(calls) + 1)..Len(calls') :
             calls'[k].outcome # "rows"
                => /\ LastOf(results').how \in {"err", "throw"}
                   /\ LastOf(results').call = k]_vars

\* C5: no submitted statement reaches the connection twice: of every
\* statement text the connection has received at most as many calls as the
\* log has entries with that text.
C5_ForwardedAtMostOnce ==
    \A t \in Statements :
        Cardinality({i \in 1..Len(calls) : Original(calls[i].text) = t})
            <= Cardinality({j \in 1..Len(previousQueries) : previousQueries[j] = t})

NotContext(sql) == ~isContextComment(sql)

\* C6: a submission that fires the catch-up sends every earlier log entry
\* that is no context marker exactly once, in log order, and sends the
\* submitted statement, if at all, after all of them.
C6_ReplayInLogOrder ==
    [][Materializes
       => LET s == LastOf(previousQueries')
              earlier == SelectSeq(previousQueries, NotContext)
          IN  /\ Len(NewCalls) >= Len(earlier)
              /\ \A i \in 1..Len(earlier) : Original(NewCalls[i].text) = earlier[i]
              /\ Len(NewCalls) <= Len(earlier) + 1
              /\ Len(NewCalls) = Len(earlier) + 1
                    => (NotContext(s) /\ Original(LastOf(NewCalls).text) = s)]_vars

C6_Witness ==
    /\ previousQueries = <<BeginSql, CtxTag, SelectSql>>
    /\ readyToExecuteTransaction
    /\ CallTexts = <<BeginSql, SelectSql>>

\* C7: the connection never receives a context marker; a submitted marker
\* is answered with the empty result, or with the error a replayed statement
\* threw when the marker's submission fired the catch-up.
C7_ContextNeverForwarded ==
    /\ \A i \in 1..Len(calls) : ~isContextComment(calls[i].text)
    /\ \A j \in 1..Len(previousQueries) :
          isContextComment(previousQueries[j])
             => \/ IsEmptyAnswer(results[j])
                \/ /\ results[j].how = "throw"
                   /\ j \in {2, 3}
                   /\ Original(calls[results[j].call].text) \in
                         {previousQueries[k] : k \in 1..(j - 1)}

C7_Witness ==
    /\ previousQueries = <<BeginSql, CtxTag, SelectSql, CtxSql>>
    /\ readyToExecuteTransaction
    /\ CallTexts = <<BeginSql, SelectSql>>
    /\ IsEmptyAnswer(results[2]) /\ IsEmptyAnswer(results[4])

BeginCalls == {i \in 1..Len(calls) : isBeginQuery(calls[i].text)}

BeginQueries == {j \in 1..Len(previousQueries) : isBeginQuery(previousQueries[j])}

\* C8 as stated: the connection receives at most one BEGIN in a session.
C8_AtMostOneBegin == Cardinality(BeginCalls) <= 1

\* C8 amended: the connection receives no more BEGINs than the session
\* submitted, hence at most one when at most one BEGIN is submitted.
C8_NoMoreBeginsThanSubmitted ==
    Cardinality(BeginCalls) <= Cardinality(BeginQueries)

C8_Witness ==
    /\ previousQueries = <<BeginSql, BeginSql>>
    /\ CallTexts = <<BeginSql, BeginSql>>

\* C9: within a session readyToExecuteTransaction never goes back to false,
\* and a BEGIN or COMMIT submitted while it is true is sent to the connection.
C9_MaterializationOneWay ==
    [][/\ (session' = session /\ readyToExecuteTransaction)
             => readyToExecuteTransaction'
       /\ (/\ Submitted
           /\ readyToExecuteTransaction
           /\ \/ isBeginQuery(LastOf(previousQueries'))
              \/ isCommitQuery(LastOf(previousQueries')))
             => /\ Len(calls') = Len(calls) + 1
                /\ LastOf(calls').text = LastOf(previousQueries')
                /\ LastOf(results').call = Len(calls')]_vars

C9_Witness ==
    /\ previousQueries = <<BeginSql, CtxTag, SelectSql, CommitSql>>
    /\ readyToExecuteTransaction
    /\ CallTexts = <<BeginSql, SelectSql, CommitSql>>

\* C10: commit() and rollback() together invoke release() at most once in a
\* session.
C10_ReleasedAtMostOnce == released <= 1

\* C11: once commit() or rollback() has closed the session, a submitted
\* statement is turned away: the log and the calls of the connection stay as
\* they were and no answer of the connection is handed to the caller.
C11_ClosedRejectsStatements ==
    [][(released >= 1 /\ session' = session)
       => /\ previousQueries' = previousQueries
          /\ calls' = calls
          /\ \A i \in (Len(results) + 1)..Len(results') :
                results'[i].how = "throw" /\ results'[i].call = 0]_vars

\* C12: when a call of the catch-up fails, the session ends closed: the
\* connection is released and nothing is sent after the failing call, the
\* statement that fired the catch-up included.
C12_ReplayFailureCloses ==
    [][Materializes
       => LET earlier == SelectSeq(previousQueries, NotContext)
          IN  \A k \in (Len(calls) + 1)..Len(calls') :
                 (k <= Len(calls) + Len(earlier) /\ calls'[k].outcome # "rows")
                    => (released' >= 1 /\ Len(calls') = k)]_vars

\* C13: a result that stems from a failing call is the structured Postgres
\* error, returned and not thrown, exactly when the failure carries code,
\* severity and message; any other failure is thrown as it is.  A call that
\* answered gives an ok result.
C13_FailuresClassifiedByShape ==
    \A i \in 1..Len(results) :
        results[i].call # 0 =>
            LET out == calls[results[i].call].outcome
            IN  /\ out = "rows" <=> results[i].how = "ok"
                /\ out = "pg" <=> (results[i].how = "err" /\ results[i].what = "Postgres")
                /\ out = "other" <=> (results[i].how = "throw" /\ results[i].what = "other")

C13_Witness ==
    \E i \in 1..Len(results) :
        /\ results[i].how = "err"
        /\ results[i].call # 0
        /\ calls[results[i].call].outcome = "pg"

\* the step is a commit() or rollback() of the running session
Closes == session' = session /\ released' # released

\* C14: commit() and rollback() send nothing to the connection and leave the
\* log and readyToExecuteTransaction alone; all they do is one release().
C14_CloseOnlyReleases ==
    [][Closes
       => /\ calls' = calls
          /\ previousQueries' = previousQueries
          /\ readyToExecuteTransaction' = readyToExecuteTransaction
          /\ results' = results
          /\ released' = released + 1]_vars

\* closed sessions, one fully suppressed and one materialized
C14_Witness ==
    /\ released = 1
    /\ \/ CanonicalShape /\ Len(calls) = 1 /\ ~readyToExecuteTransaction
       \/ previousQueries = <<BeginSql, SelectSql>> /\ readyToExecuteTransaction

\* C15: within a session the log only grows at its end: a submission appends
\* the submitted statement as it was submitted, and only that (the replay it
\* may fire appends nothing); every other step leaves the log as it is.
C15_LogAppendOnly ==
    [][session' = session
       => IF Len(results') = Len(results) + 1
          THEN \E sql \in Statements :
                  /\ previousQueries' = Append(previousQueries, sql)
                  /\ (LastOf(results').call # 0 /\ LastOf(results').how # "throw")
                        => Original(calls'[LastOf(results').call].text) = sql
          ELSE previousQueries' = previousQueries]_vars

C15_Witness ==
    /\ previousQueries = <<BeginSql, CtxSql, UpdateSql>>
    /\ Len(calls) = 1
    /\ calls[1].text # UpdateSql

\* the pairs of a payload under keys other than the reserved SQL key
NonSql(context) == {p \in context : p[1] # "SQL"}

MostRecentMarker(pq) == CHOOSE m \in Markers(pq) : \A n \in Markers(pq) : n <= m

\* C16: a write submitted when the log holds context markers is sent with
\* the context of the most recent of them: apart from the SQL key its comment
\* carries the pairs of that marker.
C16_MostRecentContext ==
    [][(/\ Submitted
        /\ isWriteQuery(LastOf(previousQueries'))
        /\ Markers(previousQueries) # {}
        /\ LastOf(results').call # 0
        /\ LastOf(results').how # "throw")
       => LET text == calls'[LastOf(results').call].text
              marker == previousQueries[MostRecentMarker(previousQueries)]
          IN  /\ Len(text.comments) = 1
              /\ NonSql(text.comments[1]) = NonSql(sqlCommentToContext(marker))]_vars

\* the submission is held back as the first-entry BEGIN or the four-entry COMMIT
HeldBack ==
    LET s == LastOf(previousQueries')
    IN  \/ isBeginQuery(s) /\ Len(previousQueries') = 1
        \/ isCommitQuery(s) /\ Markers(previousQueries) # {} /\ Len(previousQueries') = 4

\* C17: while readyToExecuteTransaction is false a submission that is not
\* held back sets it exactly when the log then has two entries and the
\* statement is no marker, or three entries and the statement is no write; a
\* held-back submission never sets it.  For BEGIN, marker, X with X no write
\* the BEGIN is the first call of that step and X, when sent, comes after it.
C17_TriggerExactlyAtTwoOrThree ==
    [][(Submitted /\ ~readyToExecuteTransaction)
       => LET s == LastOf(previousQueries')
              n == Len(previousQueries')
          IN  /\ readyToExecuteTransaction'
                    <=> /\ ~HeldBack
                        /\ \/ n = 2 /\ ~isContextComment(s)
                           \/ n = 3 /\ ~isWriteQuery(s)
              /\ HeldBack => (calls' = calls /\ IsEmptyAnswer(LastOf(results')))
              /\ (/\ n = 3
                  /\ isBeginQuery(previousQueries[1])
                  /\ isContextComment(previousQueries[2])
                  /\ ~isWriteQuery(s))
                    => /\ Len(NewCalls) >= 1
                       /\ NewCalls[1].text = previousQueries[1]
                       /\ \A k \in 2..Len(NewCalls) : NewCalls[k].text = s]_vars

C17_Witness ==
    /\ previousQueries = <<BeginSql, CtxSql, CommitSql>>
    /\ readyToExecuteTransaction
    /\ CallTexts = <<BeginSql, CommitSql>>

\* C18: a submission makes at most as many calls of the connection as the
\* log has entries; once readyToExecuteTransaction is true it stays true in
\* the session and a submission makes at most its own call, so the catch-up
\* runs at most once per session and a replayed statement starts none.
C18_ReplayBounded ==
    [][Submitted
       => /\ Len(NewCalls) <= Len(previousQueries')
          /\ readyToExecuteTransaction
                => (readyToExecuteTransaction' /\ Len(NewCalls) <= 1)
          /\ Len(results') = Len(results) + 1]_vars

C18_Witness ==
    /\ previousQueries = <<SelectSql, CtxTag, SelectSql, SelectSql>>
    /\ readyToExecuteTransaction
    /\ Len(calls) = 4

\* C19: on a session that starts with BEGIN every COMMIT the connection
\* receives comes after a BEGIN it received.
C19_CommitAfterBegin ==
    (Len(previousQueries) >= 1 /\ isBeginQuery(previousQueries[1]))
       => \A i \in 1..Len(calls) :
             isCommitQuery(calls[i].text)
                => \E j \in 1..(i - 1) : isBeginQuery(calls[j].text)

\* C20: the step that starts a session leaves an empty log and
\* readyToExecuteTransaction false whatever the connection object held, and
\* in every session the log has one entry per answered submission, so no
\* entry of an earlier session is in it.
C20_SessionStartsFresh ==
    [][(session' # session
          => (previousQueries' = <<>> /\ ~readyToExecuteTransaction'))
       /\ Len(previousQueries') = Len(results')]_vars

C20_Witness ==
    /\ session = 2
    /\ previousQueries = <<BeginSql, CtxTag>>
    /\ ~readyToExecuteTransaction
    /\ calls = <<>>

====
